---- MODULE Spec2Model ----
(***************************************************************************)
(* A model of simpy_simulation.py: the ring-oscillator TRNG (two RO        *)
(* processes, the FF latch, the Counter and the RandOut sampler) running   *)
(* on the discrete-event engine the file drives (simpy.Environment,        *)
(* simpy.Store, BroadcastPipe).                                            *)
(*                                                                         *)
(* Time is counted in integer ticks.  One tick is the Counter's settling   *)
(* delay (1e-15 in the source); periods are multiples of four ticks so     *)
(* that period / 4 and period / 2 are exact.  A jitter draw is an integer  *)
(* offset taken from Noise.                                                *)
(***************************************************************************)
EXTENDS Integers, Sequences, FiniteSets, TLC

VARIABLES sim, twin, seedseq

vars == <<sim, twin, seedseq>>

(***************************************************************************)
(* Parameters of the run.                                                  *)
(***************************************************************************)
\* TRNG(period, delta, ...): the period of ro1, in ticks.
Period == 6
\* TRNG(period, delta, ...): ro2 runs with period + delta.
Delta == 2
\* Counter.run: yield self.env.timeout(1e-15), one tick.
SettleDelay == 1
\* trng.env.run(until=...): the instant the run is stopped at.
Until == 44
\* The number of jitter draws that are free; later draws return 0.
MaxDraws == 5
\* The number of draws the seeded generator is followed for.
MaxSeed == 3
\* The number of calls of put the clients of a BroadcastPipe make.
MaxPuts == 2
\* simpy.core.Infinity, the capacity of an unbounded Store.
Infinity == -1
\* simpy.core.URGENT and simpy.core.NORMAL, the priorities of events.
URGENT == 0
NORMAL == 1

\* The values normalvariate(0, jitter * sqrt(2) / 2) may return, in ticks.
\* -5 makes half_period + noise negative for both oscillators; -3 makes
\* the wait of ro1 zero.
Noise == {-5, -3, 0, 1}

\* The values the clients of a BroadcastPipe put, and the consumers that
\* may register with it.
Values == {"a", "b"}
Consumers == {1, 2}

Procs == {"ro1", "ro2", "beat_ff", "counter", "rand_out"}

\* RO.__init__: self.period; ro1 = RO(period), ro2 = RO(period + delta).
period(r) == IF r = "ro1" THEN Period ELSE Period + Delta
\* RO.__init__: self.half_period = period / 2.
half_period(r) == period(r) \div 2
\* RO.__init__: self.out_pipe; ro1 has None, ro2 has ro2_bc_pipe.
out_pipe(r) == IF r = "ro1" THEN "none" ELSE "ro2_bc_pipe"

(***************************************************************************)
(* The engine: simpy.Environment.                                          *)
(***************************************************************************)
\* A heap ordered by time and priority alone.
BeforeNoEid(a, b) ==
    \/ a.time < b.time
    \/ a.time = b.time /\ a.prio < b.prio

\* A heap that pops the newest of the events due at one time first.
BeforeLifo(a, b) ==
    \/ a.time < b.time
    \/ a.time = b.time /\ a.prio < b.prio
    \/ a.time = b.time /\ a.prio = b.prio /\ a.eid > b.eid

\* The order of the event heap: (time, priority, eid).
Before(a, b) ==
    \/ a.time < b.time
    \/ a.time = b.time /\ a.prio < b.prio
    \/ a.time = b.time /\ a.prio = b.prio /\ a.eid < b.eid

\* The events heappop may return: those no other event is before.
Earliest(q) == {e \in q : \A f \in q : ~Before(f, e)}

\* Environment.schedule: push (now + delay, priority, next eid, event).
Schedule(s, kind, proc, store, val, cond, prio, delay) ==
    [s EXCEPT !.queue = @ \cup {[time |-> s.now + delay, prio |-> prio,
                                 eid |-> s.eid, kind |-> kind, proc |-> proc,
                                 store |-> store, val |-> val, cond |-> cond]},
              !.eid = @ + 1]

\* Environment.step: pop the event and move the clock to its time.
Pop(s, e) == [s EXCEPT !.queue = @ \ {e}, !.now = e.time]

\* An exception leaves the code that runs: s.raised names it, and what
\* follows the raising call in the generator is skipped.
Raise(s, err) == [s EXCEPT !.raised = err]

\* Process._resume, except BaseException: an exception the generator lets
\* out makes the process event fail; the event is scheduled, and
\* Environment.step raises its exception when it processes it.
Caught(s, p) ==
    IF s.raised = "none" THEN s
    ELSE Schedule([s EXCEPT !.pc[p] = "dead", !.exc[p] = s.raised,
                            !.raised = "none",
                            !.hist.errors =
                                Append(@, [proc |-> p, time |-> s.now,
                                           eid |-> s.eid])],
                  "fail", p, "none", <<>>, 0, NORMAL, 0)

\* A Timeout without the check of its delay.
TimeoutUnchecked(s, p, delay) ==
    Schedule(s, "timeout", p, "none", <<>>, 0, NORMAL, delay)

\* env.timeout(delay): Timeout.__init__ raises ValueError on a negative
\* delay, and schedules itself otherwise.
Timeout(s, p, delay) ==
    IF delay < 0
    THEN Raise(s, "ValueError")
    ELSE Schedule(s, "timeout", p, "none", <<>>, 0, NORMAL, delay)

(***************************************************************************)
(* simpy.Store.                                                            *)
(***************************************************************************)
\* simpy.Store(env, capacity): no items, nobody waiting.
NewStore(capacity) ==
    [items |-> <<>>, get_queue |-> <<>>, put_queue |-> <<>>,
     capacity |-> capacity]

HasRoom(st) == st.capacity = Infinity \/ Len(st.items) < st.capacity

\* Store._trigger_put: _do_put on the first pending put; with room the item
\* is appended and the put event succeeds (is scheduled).
TriggerPut(s, st) ==
    LET S == s.stores[st] IN
    IF S.put_queue # <<>> /\ HasRoom(S)
    THEN LET p == Head(S.put_queue)
             s1 == [s EXCEPT !.stores[st].items = Append(@, p.item),
                             !.stores[st].put_queue = Tail(@),
                             !.hist.putlog[st] =
                                 Append(@, [v |-> p.item, t |-> s.now,
                                            w |-> p.waiting])]
         IN Schedule(s1, "put", "none", st, <<>>, p.cond, NORMAL, 0)
    ELSE s

\* A Store that hands out its newest item.
TriggerGetNewest(s, st) ==
    LET S == s.stores[st] IN
    IF S.get_queue # <<>> /\ S.items # <<>>
    THEN LET s1 == [s EXCEPT !.stores[st].items =
                                 SubSeq(@, 1, Len(@) - 1),
                             !.stores[st].get_queue = Tail(@)]
         IN Schedule(s1, "get", Head(S.get_queue), st,
                     <<S.items[Len(S.items)]>>, 0, NORMAL, 0)
    ELSE s

\* A Store whose get succeeds one tick after the item is there.
TriggerGetLate(s, st) ==
    LET S == s.stores[st] IN
    IF S.get_queue # <<>> /\ S.items # <<>>
    THEN LET s1 == [s EXCEPT !.stores[st].items = Tail(@),
                             !.stores[st].get_queue = Tail(@)]
         IN Schedule(s1, "get", Head(S.get_queue), st, <<Head(S.items)>>, 0,
                     NORMAL, SettleDelay)
    ELSE s

\* Store._trigger_get: _do_get on the first pending get; with an item the
\* oldest one is removed and the get event succeeds with it.
TriggerGet(s, st) ==
    LET S == s.stores[st] IN
    IF S.get_queue # <<>> /\ S.items # <<>>
    THEN LET s1 == [s EXCEPT !.stores[st].items = Tail(@),
                             !.stores[st].get_queue = Tail(@)]
         IN Schedule(s1, "get", Head(S.get_queue), st, <<Head(S.items)>>, 0,
                     NORMAL, 0)
    ELSE s

\* store.put(item): Put.__init__ queues the request and calls _trigger_put.
StorePut(s, st, item, cond) ==
    TriggerPut([s EXCEPT !.stores[st].put_queue =
                    Append(@, [item |-> item, cond |-> cond,
                               waiting |-> s.stores[st].get_queue # <<>>])],
               st)

\* store.get(): Get.__init__ queues the request and calls _trigger_get.
StoreGet(s, st, p) ==
    TriggerGet([s EXCEPT !.stores[st].get_queue = Append(@, p)], st)

(***************************************************************************)
(* BroadcastPipe.                                                          *)
(***************************************************************************)
\* BroadcastPipe.get_output_conn: a new Store, appended to self.pipes.
get_output_conn(s, bp, st) ==
    [s EXCEPT !.pipes[bp] = Append(@, st),
              !.stores = [x \in DOMAIN s.stores \cup {st} |->
                             IF x = st THEN NewStore(s.capacity[bp])
                             ELSE s.stores[x]],
              !.hist.putlog = [x \in DOMAIN s.hist.putlog \cup {st} |->
                                  IF x = st THEN <<>> ELSE s.hist.putlog[x]],
              !.hist.gotlog = [x \in DOMAIN s.hist.gotlog \cup {st} |->
                                  IF x = st THEN <<>> ELSE s.hist.gotlog[x]],
              !.hist.reg = [x \in DOMAIN s.hist.reg \cup {st} |->
                               IF x = st THEN Len(s.hist.sent[bp])
                               ELSE s.hist.reg[x]]]

RECURSIVE PutAll(_, _, _, _)
\* [store.put(value) for store in self.pipes], in the order of the list.
PutAll(s, stores, value, cond) ==
    IF stores = <<>> THEN s
    ELSE PutAll(StorePut(s, Head(stores), value, cond), Tail(stores), value,
                cond)

\* A broadcast that reaches only the first registered Store.
PutFirstOnly(s, stores, value, cond) ==
    StorePut(s, Head(stores), value, cond)

\* The puts of one broadcast.
PutEach(s, stores, value, cond) == PutAll(s, stores, value, cond)

\* A pipe that never reports that it has no output.
NeverEmpty(s, bp) == FALSE

\* BroadcastPipe.put: if not self.pipes.
NoOutputPipes(s, bp) == s.pipes[bp] = <<>>

\* BroadcastPipe.put: RuntimeError without an output pipe; otherwise a put
\* on every Store, then env.all_of(events), a condition that waits for
\* every put event.
BroadcastPipe_put(s, bp, value) ==
    IF NoOutputPipes(s, bp)
    THEN Raise(s, "RuntimeError")
    ELSE LET c == s.ncond + 1
             s1 == [s EXCEPT !.ncond = c,
                             !.conds = @ \cup {[id |-> c,
                                                need |-> Len(s.pipes[bp]),
                                                count |-> 0]},
                             !.hist.sent[bp] = Append(@, value)]
         IN PutEach(s1, s.pipes[bp], value, c)

\* Condition._check, the callback all_of adds to each put event: count the
\* event and succeed once every event of the condition is processed.
CondCheck(s, c) ==
    IF c = 0 THEN s
    ELSE LET r == CHOOSE x \in s.conds : x.id = c IN
         IF r.count + 1 = r.need
         THEN Schedule([s EXCEPT !.conds = @ \ {r}], "all_of", "none", "none",
                       <<>>, c, NORMAL, 0)
         ELSE [s EXCEPT !.conds = (@ \ {r}) \cup
                                    {[r EXCEPT !.count = @ + 1]}]

(***************************************************************************)
(* The processes.  pc[p] is the yield the generator of p is suspended at.  *)
(***************************************************************************)
\* An oscillator that waits zero ticks when its sampled wait is negative.
RO_wait_clamped(s, r, d) ==
    Timeout([s EXCEPT !.pc[r] = "loop", !.ndraw = @ + 1,
                      !.hist.waits[r] = Append(@, half_period(r) + d)],
            r, IF half_period(r) + d < 0 THEN 0 ELSE half_period(r) + d)

\* RO.run, the head of the while loop: draw the noise and wait
\* half_period + noise.  d is the value normalvariate returns.
RO_wait(s, r, d) ==
    Timeout([s EXCEPT !.pc[r] = "loop", !.ndraw = @ + 1,
                      !.hist.waits[r] = Append(@, half_period(r) + d)],
            r, half_period(r) + d)

\* An oscillator that enters its loop at once, with or without an out_pipe.
RO_run_unphased(s, r, d) ==
    IF s.pc[r] = "start" THEN RO_wait(s, r, d)
    ELSE LET new == ~s.ro[r].state
             s1 == [s EXCEPT !.ro[r].state = new,
                             !.hist.flips[r] = Append(@, s.now)]
             s2 == IF out_pipe(r) # "none"
                   THEN BroadcastPipe_put(s1, out_pipe(r), new)
                   ELSE s1
         IN IF s2.raised # "none" THEN s2 ELSE RO_wait(s2, r, d)

\* An oscillator that broadcasts the state it had before the flip.
RO_run_stale(s, r, d) ==
    CASE s.pc[r] = "start" ->
           IF out_pipe(r) # "none"
           THEN Timeout([s EXCEPT !.pc[r] = "quarter"], r, period(r) \div 4)
           ELSE RO_wait(s, r, d)
      [] s.pc[r] = "quarter" -> RO_wait(s, r, d)
      [] s.pc[r] = "loop" ->
           LET s1 == [s EXCEPT !.ro[r].state = ~@,
                               !.hist.flips[r] = Append(@, s.now)]
               s2 == IF out_pipe(r) # "none"
                     THEN BroadcastPipe_put(s1, out_pipe(r), s.ro[r].state)
                     ELSE s1
           IN IF s2.raised # "none" THEN s2 ELSE RO_wait(s2, r, d)

\* RO.run, resumed: the first wait of period / 4 for an oscillator with an
\* out_pipe, then on every wake-up the flip, the broadcast, the record and
\* the next wait.
RO_run(s, r, d) ==
    CASE s.pc[r] = "start" ->
           IF out_pipe(r) # "none"
           THEN Timeout([s EXCEPT !.pc[r] = "quarter"], r, period(r) \div 4)
           ELSE RO_wait(s, r, d)
      [] s.pc[r] = "quarter" -> RO_wait(s, r, d)
      [] s.pc[r] = "loop" ->
           LET new == ~s.ro[r].state
               s1 == [s EXCEPT !.ro[r].state = new,
                               !.hist.flips[r] = Append(@, s.now)]
               s2 == IF out_pipe(r) # "none"
                     THEN BroadcastPipe_put(s1, out_pipe(r), new)
                     ELSE s1
               s3 == IF s.verbose
                     THEN [s2 EXCEPT !.ro[r].data = Append(@, <<s.now, new>>)]
                     ELSE s2
           IN IF s2.raised # "none" THEN s2 ELSE RO_wait(s3, r, d)

\* FF.run: yield self.i_clk_pipe.get().
FF_get(s) == StoreGet([s EXCEPT !.pc["beat_ff"] = "get"], "ff_clk", "beat_ff")

\* A latch that acts on every value of its clock, true or false.
FF_run_any(s, clk) ==
    LET new == s.ro["ro1"].state
        s1 == [s EXCEPT !.beat_ff.old_state = s.beat_ff.state,
                        !.beat_ff.state = new]
        s3 == BroadcastPipe_put(s1, "beat_bc_pipe", new)
    IN IF s3.raised # "none" THEN s3 ELSE FF_get(s3)

\* FF.run, resumed with the value clk of its get: on a true value latch
\* i_data.state (ro1, read live) and broadcast it; then get again.
FF_run(s, clk) ==
    IF clk
    THEN LET new == s.ro["ro1"].state
             s1 == [s EXCEPT !.beat_ff.old_state = s.beat_ff.state,
                             !.beat_ff.state = new]
             s2 == IF s.verbose
                   THEN [s1 EXCEPT !.beat_ff.data = Append(@, <<s.now, new>>)]
                   ELSE s1
             s3 == BroadcastPipe_put(s2, "beat_bc_pipe", new)
         IN IF s3.raised # "none" THEN s3 ELSE FF_get(s3)
    ELSE FF_get(s)

\* A running mean that divides by the index of the next sample.
RunningMeanLate(avg, count, n) ==
    <<avg[1] * n + count * avg[2], avg[2] * (n + 1)>>

\* Counter.run: self.avg + (self.count - self.avg) / self.n, kept exact:
\* avg is the fraction <<numerator, denominator>>.
RunningMean(avg, count, n) ==
    <<avg[1] * (n - 1) + count * avg[2], avg[2] * n>>

\* A counter whose state is its whole count.
Counter_count(s) == s.counter.count

\* Counter.state: self.count % 2.
Counter_state(s) == s.counter.count % 2

\* Counter.run: yield self.i_clk_pipe.get().
Counter_get(s) ==
    StoreGet([s EXCEPT !.pc["counter"] = "get"], "counter_clk", "counter")

\* A counter that does not wait for the sampler to settle.
Counter_clk_hasty(s, clk) ==
    IF clk
    THEN Timeout([s EXCEPT !.pc["counter"] = "settle",
                           !.hist.seen = @ + 1],
                 "counter", 0)
    ELSE Counter_get(s)

\* A counter that ends when it receives a false value.
Counter_clk_once(s, clk) ==
    IF clk
    THEN Timeout([s EXCEPT !.pc["counter"] = "settle",
                           !.hist.seen = @ + 1],
                 "counter", SettleDelay)
    ELSE [s EXCEPT !.pc["counter"] = "dead"]

\* Counter.run, resumed with the value clk of its get: a true value starts
\* the settling wait, a false one is dropped.
Counter_clk(s, clk) ==
    IF clk
    THEN Timeout([s EXCEPT !.pc["counter"] = "settle",
                           !.hist.seen = @ + 1],
                 "counter", SettleDelay)
    ELSE Counter_get(s)

\* A counter that counts the clock message of a reset as well.
Counter_run_inclusive(s) ==
    LET c == s.counter
        s2 == StorePut(s, "q_pipe", c.count, 0)
        rst == s.beat_ff.state
        s3 == IF rst /\ ~c.old_state
              THEN [s2 EXCEPT !.counter.n = @ + 1,
                              !.counter.count_max = Append(@, c.count + 1),
                              !.counter.count = 0,
                              !.hist.seen_at_reset = Append(@, s.hist.seen),
                              !.hist.seen = 0]
              ELSE [s2 EXCEPT !.counter.count = @ + 1]
    IN Counter_get([s3 EXCEPT !.counter.old_state = rst])

\* A counter that resets whenever its reset gate is true.
Counter_run_level(s) ==
    LET c == s.counter
        s2 == StorePut(s, "q_pipe", c.count, 0)
        rst == s.beat_ff.state
        s3 == IF rst
              THEN [s2 EXCEPT !.counter.n = @ + 1,
                              !.counter.count_max = Append(@, c.count),
                              !.counter.count = 0,
                              !.hist.seen_at_reset = Append(@, s.hist.seen),
                              !.hist.seen = 0]
              ELSE [s2 EXCEPT !.counter.count = @ + 1]
    IN Counter_get([s3 EXCEPT !.counter.old_state = rst])

\* Counter.run, resumed after the settling wait: record and publish count,
\* then reset on a rising i_rst.state (the latch, read live) or count.
Counter_run(s) ==
    LET c == s.counter
        s1 == IF s.verbose
              THEN [s EXCEPT !.counter.data = Append(@, <<s.now, c.count>>)]
              ELSE s
        s2 == StorePut(s1, "q_pipe", c.count, 0)
        rst == s.beat_ff.state
        s3 == IF rst /\ ~c.old_state
              THEN [s2 EXCEPT !.counter.avg = RunningMean(@, c.count, c.n),
                              !.counter.n = @ + 1,
                              !.counter.count_max = Append(@, c.count),
                              !.counter.count = 0,
                              !.hist.seen_at_reset = Append(@, s.hist.seen),
                              !.hist.seen = 0]
              ELSE [s2 EXCEPT !.counter.count = @ + 1]
    IN Counter_get([s3 EXCEPT !.counter.old_state = rst,
                              !.hist.gates =
                                  Append(@, [rst |-> rst,
                                             latched |->
                                                 Len(s.hist.sent["beat_bc_pipe"])])])

\* RandOut.run: yield self.i_clk_pipe.get().
RandOut_get(s) ==
    StoreGet([s EXCEPT !.pc["rand_out"] = "get"], "rand_clk", "rand_out")

\* A sampler that records on every true value of its clock.
RandOut_run_level(s, i_clk) ==
    LET s1 == IF i_clk
              THEN [s EXCEPT !.rand_out.data = Append(@, Counter_state(s))]
              ELSE s
    IN RandOut_get([s1 EXCEPT !.rand_out.old_i_clk = i_clk])

\* RandOut.run, resumed with the value i_clk of its get: on a rising edge
\* append i_Q.state (the counter, read live), with the time when verbose.
RandOut_run(s, i_clk) ==
    LET s1 == IF i_clk /\ ~s.rand_out.old_i_clk
              THEN IF s.verbose
                   THEN [s EXCEPT !.rand_out.data =
                             Append(@, <<s.now, Counter_state(s)>>)]
                   ELSE [s EXCEPT !.rand_out.data =
                             Append(@, Counter_state(s))]
              ELSE s
    IN RandOut_get([s1 EXCEPT !.rand_out.old_i_clk = i_clk])

(***************************************************************************)
(* Construction: TRNG.__init__ and the call of env.run.                    *)
(***************************************************************************)
\* simpy.Environment() with the pipes and stores TRNG.__init__ creates
\* first, and the fields the components' __init__ set.
NewTRNG(verbose) ==
    [now |-> 0, eid |-> 0, queue |-> {}, status |-> "running",
     raised |-> "none",
     verbose |-> verbose, ndraw |-> 0, ncond |-> 0, conds |-> {},
     pipes |-> [b \in {"ro2_bc_pipe", "beat_bc_pipe"} |-> <<>>],
     capacity |-> [b \in {"ro2_bc_pipe", "beat_bc_pipe"} |-> Infinity],
     stores |-> [x \in {"q_pipe"} |-> NewStore(Infinity)],
     ro |-> [r \in {"ro1", "ro2"} |-> [state |-> TRUE, data |-> <<>>]],
     beat_ff |-> [state |-> FALSE, old_state |-> FALSE, data |-> <<>>],
     counter |-> [count |-> 0, data |-> <<>>, count_max |-> <<>>,
                  avg |-> <<0, 1>>, n |-> 1, old_state |-> FALSE],
     rand_out |-> [data |-> <<>>, old_i_clk |-> FALSE],
     pc |-> [p \in Procs |-> "start"],
     exc |-> [p \in Procs |-> "none"],
     hist |-> [sent |-> [b \in {"ro2_bc_pipe", "beat_bc_pipe"} |-> <<>>],
               putlog |-> [x \in {"q_pipe"} |-> <<>>],
               gotlog |-> [x \in {"q_pipe"} |-> <<>>],
               reg |-> [x \in {"q_pipe"} |-> 0],
               waits |-> [r \in {"ro1", "ro2"} |-> <<>>],
               flips |-> [r \in {"ro1", "ro2"} |-> <<>>],
               seen |-> 0, seen_at_reset |-> <<>>,
               last |-> [kind |-> "none", proc |-> "none", val |-> <<>>],
               gates |-> <<>>,
               steps |-> 0, times |-> <<>>, eids |-> <<>>, errors |-> <<>>,
               after_error |-> <<>>]]

\* env.process(generator): Process.__init__ schedules its Initialize event.
Process(s, p) == Schedule(s, "init", p, "none", <<>>, 0, URGENT, 0)

\* env.run(until=...): the stop event, scheduled URGENT at that time.
RunUntil(s, at) == Schedule(s, "until", "none", "none", <<>>, 0, URGENT,
                            at - s.now)

\* TRNG.__init__: the three output connections in the order of the
\* constructor, then the five processes.
TRNG_init(verbose) ==
    LET s1 == get_output_conn(NewTRNG(verbose), "ro2_bc_pipe", "ff_clk")
        s2 == get_output_conn(s1, "ro2_bc_pipe", "counter_clk")
        s3 == get_output_conn(s2, "beat_bc_pipe", "rand_clk")
    IN Process(Process(Process(Process(Process(s3, "ro1"), "ro2"),
                               "beat_ff"), "counter"), "rand_out")

(***************************************************************************)
(* Environment.step: the callbacks of each kind of event.                  *)
(***************************************************************************)
\* What the run has just done, for the properties.
Note(s, e) ==
    [s EXCEPT !.hist.last = [kind |-> e.kind, proc |-> e.proc, val |-> e.val],
              !.hist.steps = @ + 1,
              !.hist.times = Append(@, e.time),
              !.hist.eids = Append(@, e.eid),
              !.hist.after_error =
                  IF s.hist.errors # <<>>
                  THEN Append(@, [kind |-> e.kind, proc |-> e.proc,
                                  eid |-> e.eid, time |-> e.time])
                  ELSE @]

\* A get event: Store._trigger_put, then the value goes to the process.
GotValue(s, e) ==
    LET s1 == TriggerPut(s, e.store)
    IN [s1 EXCEPT !.hist.gotlog[e.store] =
                      Append(@, [v |-> e.val[1], t |-> s.now])]

\* A put event: Store._trigger_get, then the condition of the broadcast.
PutDone(s, e) == CondCheck(TriggerGet(s, e.store), e.cond)

\* Process._resume of an oscillator.
ResumeRO(s, e, d) == Caught(RO_run(s, e.proc, d), e.proc)

\* Process._resume of the latch.
ResumeFF(s, e) ==
    Caught(IF e.kind = "init" THEN FF_get(s)
           ELSE FF_run(GotValue(s, e), e.val[1]), e.proc)

\* Process._resume of the counter.
ResumeCounter(s, e) ==
    Caught(CASE e.kind = "init" -> Counter_get(s)
             [] e.kind = "get" -> Counter_clk(GotValue(s, e), e.val[1])
             [] e.kind = "timeout" -> Counter_run(s), e.proc)

\* Process._resume of the sampler.
ResumeRandOut(s, e) ==
    Caught(IF e.kind = "init" THEN RandOut_get(s)
           ELSE RandOut_run(GotValue(s, e), e.val[1]), e.proc)

\* Environment.step on event e; d is the next jitter draw.
Step(s, e, d) ==
    LET s0 == Note(Pop(s, e), e) IN
    CASE e.kind = "until" -> [s0 EXCEPT !.status = "stopped"]
      [] e.kind = "fail" -> [s0 EXCEPT !.status = "crashed"]
      [] e.kind = "put" -> PutDone(s0, e)
      [] e.kind = "all_of" -> s0
      [] e.proc \in {"ro1", "ro2"} -> ResumeRO(s0, e, d)
      [] e.proc = "beat_ff" -> ResumeFF(s0, e)
      [] e.proc = "counter" -> ResumeCounter(s0, e)
      [] e.proc = "rand_out" -> ResumeRandOut(s0, e)

\* The values the next call of normalvariate may return.
Jitter(s) == IF s.ndraw < MaxDraws THEN Noise ELSE {0}

(***************************************************************************)
(* The run of the TRNG: trng.env.run(until=...), one action per kind of    *)
(* event the loop of Environment.step processes.                           *)
(***************************************************************************)
Init ==
    /\ \E v \in BOOLEAN : sim = RunUntil(TRNG_init(v), Until)
    /\ twin = <<>>
    /\ seedseq = <<>>

\* The event Environment.step pops next, while the run goes on.
Head1(e) == sim.status = "running" /\ e \in Earliest(sim.queue)

\* An oscillator is started or woken by its timeout.
Oscillate ==
    \E e \in sim.queue :
        /\ Head1(e)
        /\ e.kind \in {"init", "timeout"}
        /\ e.proc \in {"ro1", "ro2"}
        /\ \E d \in Jitter(sim) : sim' = Step(sim, e, d)
        /\ UNCHANGED <<twin, seedseq>>

\* The latch is started or receives a clock value.
Latch ==
    \E e \in sim.queue :
        /\ Head1(e)
        /\ e.kind \in {"init", "get"}
        /\ e.proc = "beat_ff"
        /\ sim' = Step(sim, e, 0)
        /\ UNCHANGED <<twin, seedseq>>

\* The counter is started, receives a clock value or ends its settling wait.
Count ==
    \E e \in sim.queue :
        /\ Head1(e)
        /\ e.kind \in {"init", "get", "timeout"}
        /\ e.proc = "counter"
        /\ sim' = Step(sim, e, 0)
        /\ UNCHANGED <<twin, seedseq>>

\* The sampler is started or receives a value of the latch.
Sample ==
    \E e \in sim.queue :
        /\ Head1(e)
        /\ e.kind \in {"init", "get"}
        /\ e.proc = "rand_out"
        /\ sim' = Step(sim, e, 0)
        /\ UNCHANGED <<twin, seedseq>>

\* A put event or the condition of a broadcast is processed.
Deliver ==
    \E e \in sim.queue :
        /\ Head1(e)
        /\ e.kind \in {"put", "all_of"}
        /\ sim' = Step(sim, e, 0)
        /\ UNCHANGED <<twin, seedseq>>

\* The stop event of env.run(until) is processed: the run returns.
Stop ==
    \E e \in sim.queue :
        /\ Head1(e)
        /\ e.kind = "until"
        /\ sim' = Step(sim, e, 0)
        /\ UNCHANGED <<twin, seedseq>>

\* The event of a failed process is processed: env.run raises.
Crash ==
    \E e \in sim.queue :
        /\ Head1(e)
        /\ e.kind = "fail"
        /\ sim' = Step(sim, e, 0)
        /\ UNCHANGED <<twin, seedseq>>

Next == Oscillate \/ Latch \/ Count \/ Sample \/ Deliver \/ Stop \/ Crash

Spec == Init /\ [][Next]_vars

(***************************************************************************)
(* Two runs of the same TRNG with the same seed: seed(1) fixes the values  *)
(* normalvariate returns, seedseq, and each run takes them in the order    *)
(* of its own draws.  Either run may be one step ahead of the other.       *)
(***************************************************************************)
\* The value the next call of normalvariate returns in run s.
Draw(s) == IF s.ndraw < Len(seedseq) THEN seedseq[s.ndraw + 1] ELSE 0

InitDet ==
    /\ seedseq \in [1..MaxSeed -> Noise]
    /\ \E v \in BOOLEAN : sim = RunUntil(TRNG_init(v), Until)
    /\ twin = sim

\* Environment.step of the first run.
RunFirst ==
    /\ sim.status = "running"
    /\ sim.hist.steps <= twin.hist.steps
    /\ \E e \in Earliest(sim.queue) : sim' = Step(sim, e, Draw(sim))
    /\ UNCHANGED <<twin, seedseq>>

\* Environment.step of the second run.
RunSecond ==
    /\ twin.status = "running"
    /\ twin.hist.steps <= sim.hist.steps
    /\ \E e \in Earliest(twin.queue) : twin' = Step(twin, e, Draw(twin))
    /\ UNCHANGED <<sim, seedseq>>

NextDet == RunFirst \/ RunSecond

SpecDet == InitDet /\ [][NextDet]_vars

(***************************************************************************)
(* A BroadcastPipe under arbitrary clients: consumers register, a producer *)
(* puts, each consumer gets from its own Store one value at a time, and    *)
(* Environment.step processes the events in between.                       *)
(***************************************************************************)
\* simpy.Environment() and BroadcastPipe(env, capacity), nothing else.
NewPipe(capacity) ==
    [now |-> 0, eid |-> 0, queue |-> {}, raised |-> "none",
     ncond |-> 0, conds |-> {},
     pipes |-> [b \in {"bp"} |-> <<>>],
     capacity |-> [b \in {"bp"} |-> capacity],
     stores |-> [x \in {} |-> NewStore(capacity)],
     busy |-> {},
     hist |-> [sent |-> [b \in {"bp"} |-> <<>>],
               putlog |-> [x \in {} |-> <<>>],
               gotlog |-> [x \in {} |-> <<>>],
               reg |-> [x \in {} |-> 0],
               last |-> [op |-> "none", arg |-> "none",
                         raised |-> "none"],
               nput |-> 0]]

\* What the client has just called, and the exception the call raised.
Called(s, op, arg) ==
    [s EXCEPT !.raised = "none",
              !.hist.last = [op |-> op, arg |-> arg, raised |-> s.raised],
              !.hist.nput = IF op = "put" THEN @ + 1 ELSE @]

InitPipe ==
    /\ sim = NewPipe(Infinity)
    /\ twin = <<>>
    /\ seedseq = <<>>

\* A consumer calls get_output_conn.
Register ==
    /\ Len(sim.pipes["bp"]) < Cardinality(Consumers)
    /\ sim' = Called(get_output_conn(sim, "bp", Len(sim.pipes["bp"]) + 1),
                     "get_output_conn", "none")
    /\ UNCHANGED <<twin, seedseq>>

\* The producer calls put(v).
Produce ==
    /\ sim.hist.nput < MaxPuts
    /\ \E v \in Values :
           sim' = Called(BroadcastPipe_put(sim, "bp", v), "put", v)
    /\ UNCHANGED <<twin, seedseq>>

\* The consumer of a Store calls get(), its earlier get having returned.
Consume ==
    /\ \E m \in DOMAIN sim.stores \ sim.busy :
           sim' = [StoreGet(sim, m, m) EXCEPT !.busy = @ \cup {m}]
    /\ UNCHANGED <<twin, seedseq>>

\* Environment.step on a put event or the condition of a broadcast.
PipeDeliver ==
    \E e \in Earliest(sim.queue) :
        /\ e.kind \in {"put", "all_of"}
        /\ sim' = IF e.kind = "put" THEN PutDone(Pop(sim, e), e)
                  ELSE Pop(sim, e)
        /\ UNCHANGED <<twin, seedseq>>

\* Environment.step on a get event: the consumer's get returns the value.
PipeReceive ==
    \E e \in Earliest(sim.queue) :
        /\ e.kind = "get"
        /\ sim' = [GotValue(Pop(sim, e), e) EXCEPT !.busy = @ \ {e.proc}]
        /\ UNCHANGED <<twin, seedseq>>

NextPipe ==
    Register \/ Produce \/ Consume \/ PipeDeliver \/ PipeReceive

SpecPipe == InitPipe /\ [][NextPipe]_vars

(***************************************************************************)
(* Properties of BroadcastPipe and Store, under SpecPipe.                  *)
(***************************************************************************)
\* The values of a log, in its order.
Vals(log) == [k \in 1..Len(log) |-> log[k].v]

IsPrefix(a, b) == Len(a) <= Len(b) /\ SubSeq(b, 1, Len(a)) = a

\* The values put on pipe bp since Store m was registered with it.
PutSeq(s, bp, m) ==
    SubSeq(s.hist.sent[bp], s.hist.reg[m] + 1, Len(s.hist.sent[bp]))

\* The value a succeeded get event of Store m carries until it is processed.
InFlight(s, m) ==
    IF \E e \in s.queue : e.kind = "get" /\ e.store = m
    THEN (CHOOSE e \in s.queue : e.kind = "get" /\ e.store = m).val
    ELSE <<>>

\* C1: every value put on the pipe is appended exactly once, in put order,
\* to every registered Store: what a Store was given is the sequence of the
\* puts, and what its consumer got, is about to get and has still buffered
\* makes up that sequence, nothing lost and nothing twice.
C1_FanOut ==
    \A m \in DOMAIN sim.stores :
        /\ Vals(sim.hist.putlog[m]) = PutSeq(sim, "bp", m)
        /\ Vals(sim.hist.gotlog[m]) \o InFlight(sim, m)
               \o sim.stores[m].items = PutSeq(sim, "bp", m)

\* C1 witness: two Stores registered before the first put, two different
\* values put, both Stores given both.
C1_Witness ==
    /\ DOMAIN sim.stores = Consumers
    /\ sim.hist.sent["bp"] = <<"a", "b">>
    /\ \A m \in Consumers :
           sim.hist.reg[m] = 0 /\ Vals(sim.hist.putlog[m]) = <<"a", "b">>

\* C2: a put on a pipe without a registered Store raises RuntimeError and
\* creates no Store, schedules nothing, delivers nothing and leaves
\* self.pipes empty.
C2_NoConsumers ==
    [][(sim.pipes["bp"] = <<>> /\ sim'.hist.nput = sim.hist.nput + 1)
          => /\ sim'.hist.last.raised = "RuntimeError"
             /\ sim'.pipes = sim.pipes
             /\ sim'.stores = sim.stores
             /\ sim'.queue = sim.queue
             /\ sim'.conds = sim.conds
             /\ sim'.hist.sent = sim.hist.sent]_vars

\* C2 witness: a put was called on the pipe with no Store, and raised.
C2_Witness ==
    /\ sim.hist.last.op = "put"
    /\ sim.hist.last.raised = "RuntimeError"
    /\ sim.pipes["bp"] = <<>>

\* C3: the values the successive gets of a Store return are a prefix of the
\* values put into it, in the same order.
C3_Fifo ==
    \A m \in DOMAIN sim.stores :
        IsPrefix(Vals(sim.hist.gotlog[m]), Vals(sim.hist.putlog[m]))

\* C3 witness: a consumer got two different values in put order, the first
\* put while its get was pending and the second put before it called get.
C3_Witness ==
    \E m \in DOMAIN sim.stores :
        /\ Vals(sim.hist.gotlog[m]) = <<"a", "b">>
        /\ sim.hist.putlog[m][1].w
        /\ ~sim.hist.putlog[m][2].w

(***************************************************************************)
(* Properties of the run of the TRNG, under Spec.                          *)
(***************************************************************************)
Last(q) == q[Len(q)]

NonDecreasing(q) == \A i \in 1..(Len(q) - 1) : q[i] <= q[i + 1]

\* The times of a verbose data sequence.
Stamps(data) == [k \in 1..Len(data) |-> data[k][1]]

\* C4: at every reset the value appended to count_max is one less than the
\* number of true clock messages the counter received since the reset
\* before (or since the start): the message that triggers the reset is
\* received but not counted.
C4_CountAtReset ==
    /\ Len(sim.counter.count_max) = Len(sim.hist.seen_at_reset)
    /\ \A k \in 1..Len(sim.counter.count_max) :
           sim.counter.count_max[k] = sim.hist.seen_at_reset[k] - 1

\* C4 as stated: the value appended at a reset equals the number of true
\* clock messages received since the reset before.
C4_Original ==
    \A k \in 1..Len(sim.counter.count_max) :
        sim.counter.count_max[k] = sim.hist.seen_at_reset[k]

\* C4 witness: two resets, the second after three true clock messages.
C4_Witness ==
    /\ Len(sim.counter.count_max) >= 2
    /\ sim.hist.seen_at_reset[2] = 3
    /\ sim.counter.count_max[2] = 2

\* The step of the latch that receives a clock value.
LatchGot ==
    /\ sim'.hist.steps = sim.hist.steps + 1
    /\ sim'.hist.last.proc = "beat_ff"
    /\ sim'.hist.last.kind = "get"

\* C5: on a true clock message the latch moves state to old_state, sets
\* state to the state ro1 has at that moment and broadcasts the new state
\* once; on a false one state and old_state stay and nothing is broadcast.
C5_Latch ==
    [][LatchGot =>
          IF sim'.hist.last.val[1]
          THEN /\ sim'.beat_ff.old_state = sim.beat_ff.state
               /\ sim'.beat_ff.state = sim.ro["ro1"].state
               /\ sim'.hist.sent["beat_bc_pipe"] =
                      Append(sim.hist.sent["beat_bc_pipe"], sim'.beat_ff.state)
               /\ Vals(sim'.hist.putlog["rand_clk"]) =
                      sim'.hist.sent["beat_bc_pipe"]
          ELSE /\ sim'.beat_ff.state = sim.beat_ff.state
               /\ sim'.beat_ff.old_state = sim.beat_ff.old_state
               /\ sim'.hist.sent = sim.hist.sent
               /\ sim'.hist.putlog = sim.hist.putlog]_vars

\* C5 witness: the latch has just taken a true clock message that changed
\* its state, after a broadcast of the other state.
C5_Witness ==
    /\ sim.hist.last.proc = "beat_ff"
    /\ sim.hist.last.kind = "get"
    /\ sim.hist.last.val = <<TRUE>>
    /\ sim.beat_ff.state /\ ~sim.beat_ff.old_state
    /\ Len(sim.hist.sent["beat_bc_pipe"]) >= 2

\* The step of the sampler that receives a value of the latch.
SamplerGot ==
    /\ sim'.hist.steps = sim.hist.steps + 1
    /\ sim'.hist.last.proc = "rand_out"
    /\ sim'.hist.last.kind = "get"

\* What the sampler does with the received value when a rising edge makes
\* it record the value sample.
Sampled(sample) ==
    LET v == sim'.hist.last.val[1] IN
    /\ sim'.rand_out.old_i_clk = v
    /\ sim'.rand_out.data =
          IF v /\ ~sim.rand_out.old_i_clk
          THEN Append(sim.rand_out.data,
                      IF sim.verbose THEN <<sim'.now, sample>> ELSE sample)
          ELSE sim.rand_out.data

\* C6: the sampler appends a sample exactly when the received value is
\* true and the value received before was false; the sample is the
\* counter's count modulo 2 at that instant (with the time when verbose),
\* and the flag takes every received value.
C6_Sampler == [][SamplerGot => Sampled(sim.counter.count % 2)]_vars

\* C6 as stated: the sample is the counter's count.
C6_Original == [][SamplerGot => Sampled(sim.counter.count)]_vars

\* C6 witness: the sampler has just recorded, on a rising edge of the
\* latch, the sample 0 of a counter whose count is 2.
C6_Witness ==
    /\ sim.hist.last.proc = "rand_out"
    /\ sim.hist.last.val = <<TRUE>>
    /\ ~sim.beat_ff.old_state
    /\ sim.counter.count = 2
    /\ ~sim.verbose
    /\ sim.rand_out.data # <<>>
    /\ Last(sim.rand_out.data) = 0

\* What holds of oscillator r once a wait it sampled is negative.
Failed(r) ==
    /\ sim.exc[r] = "ValueError"
    /\ sim.pc[r] = "dead"
    /\ Len(sim.hist.flips[r]) = Len(sim.hist.waits[r]) - 1
    /\ out_pipe(r) # "none" =>
           Len(sim.hist.sent[out_pipe(r)]) = Len(sim.hist.flips[r])
    /\ ~\E e \in sim.queue : e.proc = r /\ e.kind = "timeout"
    /\ sim.status # "stopped"
    /\ sim.now = sim.hist.errors[1].time
    /\ IF sim.status = "crashed"
       THEN Last(sim.hist.after_error).eid = sim.hist.errors[1].eid
       ELSE \E e \in sim.queue :
                e.kind = "fail" /\ e.eid = sim.hist.errors[1].eid

\* C7: a negative sampled wait raises ValueError in the oscillator, which
\* neither flips nor broadcasts for that wait and is never resumed; the
\* clock stays at the instant of the error, the run ends by raising and
\* never by reaching its limit, and the events processed between the error
\* and the abort are those already queued for that instant ahead of the
\* failure.
C7_NegativeDelay ==
    /\ \A r \in {"ro1", "ro2"} :
           LET w == sim.hist.waits[r] IN
           /\ \A k \in 1..(Len(w) - 1) : w[k] >= 0
           /\ IF w # <<>> /\ Last(w) < 0
              THEN Failed(r) ELSE sim.exc[r] = "none"
    /\ \A k \in 1..Len(sim.hist.after_error) :
           /\ sim.hist.after_error[k].time = sim.hist.errors[1].time
           /\ sim.hist.after_error[k].eid <= sim.hist.errors[1].eid

\* C7 as stated: after the error no event is processed, other than the
\* failure that aborts the run.
C7_Original ==
    \A k \in 1..Len(sim.hist.after_error) :
        sim.hist.after_error[k].kind = "fail"

\* C7 witness: ro2 flipped and broadcast twice, then sampled a negative
\* wait; the put events of its last broadcast were processed, then the run
\* was aborted.
C7_Witness ==
    /\ sim.status = "crashed"
    /\ sim.exc["ro2"] = "ValueError"
    /\ Len(sim.hist.flips["ro2"]) = 2
    /\ Last(sim.hist.waits["ro2"]) < 0
    /\ Len(sim.hist.after_error) = 3
    /\ sim.hist.after_error[1].kind = "put"

RECURSIVE TrueTimes(_, _)
\* The times, among times, of the true values among vals.
TrueTimes(vals, times) ==
    IF vals = <<>> THEN <<>>
    ELSE (IF Head(vals) THEN <<Head(times)>> ELSE <<>>)
             \o TrueTimes(Tail(vals), Tail(times))

\* C8: a value put into a Store whose consumer is suspended in get reaches
\* that consumer at the time of the put; the latch takes every broadcast
\* of ro2 at the time of the flip of ro2 that made it, and the sampler
\* takes every broadcast of the latch at the time of the flip of ro2 to
\* true that made it.
C8_SameInstant ==
    /\ \A m \in DOMAIN sim.stores :
           \A k \in 1..Len(sim.hist.gotlog[m]) :
               sim.hist.putlog[m][k].w =>
                   sim.hist.gotlog[m][k].t = sim.hist.putlog[m][k].t
    /\ \A k \in 1..Len(sim.hist.gotlog["ff_clk"]) :
           sim.hist.gotlog["ff_clk"][k].t = sim.hist.flips["ro2"][k]
    /\ \A k \in 1..Len(sim.hist.gotlog["rand_clk"]) :
           sim.hist.gotlog["rand_clk"][k].t =
               TrueTimes(sim.hist.sent["ro2_bc_pipe"],
                         sim.hist.flips["ro2"])[k]

\* C8 witness: the sampler took two broadcasts of the latch, made at
\* different times, and the counter took a value put while it waited.
C8_Witness ==
    /\ Len(sim.hist.gotlog["rand_clk"]) >= 2
    /\ sim.hist.gotlog["rand_clk"][1].t < sim.hist.gotlog["rand_clk"][2].t
    /\ \E k \in 1..Len(sim.hist.gotlog["counter_clk"]) :
           sim.hist.putlog["counter_clk"][k].w

\* C9: the clock is never negative and never goes back: the times at which
\* the events are processed, one after the other, do not decrease, and
\* neither do the times recorded in the data of each component.
C9_SimTime ==
    /\ sim.now >= 0
    /\ \A k \in 1..Len(sim.hist.times) : sim.hist.times[k] >= 0
    /\ NonDecreasing(sim.hist.times)
    /\ sim.hist.times # <<>> => sim.now = Last(sim.hist.times)
    /\ sim.verbose =>
           /\ \A r \in {"ro1", "ro2"} :
                  NonDecreasing(Stamps(sim.ro[r].data))
           /\ NonDecreasing(Stamps(sim.beat_ff.data))
           /\ NonDecreasing(Stamps(sim.counter.data))
           /\ NonDecreasing(Stamps(sim.rand_out.data))

\* C9 witness: a verbose run in which every component has recorded data,
\* the oscillators at several times.
C9_Witness ==
    /\ sim.verbose
    /\ \A r \in {"ro1", "ro2"} :
           Len(sim.ro[r].data) >= 2 /\ sim.ro[r].data[1][1] < sim.ro[r].data[2][1]
    /\ sim.beat_ff.data # <<>>
    /\ sim.counter.data # <<>>
    /\ sim.rand_out.data # <<>>

MaxReads == 2

RECURSIVE Sum(_)
Sum(q) == IF q = <<>> THEN 0 ELSE Head(q) + Sum(Tail(q))

RECURSIVE SumSq(_)
SumSq(q) == IF q = <<>> THEN 0 ELSE Head(q) * Head(q) + SumSq(Tail(q))

\* np.std(x) * delta / np.sqrt(2 * period / delta), kept exact as the
\* fraction <<numerator, denominator>> of its square:
\* (N * sum(x^2) - sum(x)^2) * delta^3 / (N^2 * 2 * period).
\* np.std of an empty list is nan, the fraction <<0, 0>>.
Scaled(x) ==
    IF x = <<>> THEN <<0, 0>>
    ELSE <<(Len(x) * SumSq(x) - Sum(x) * Sum(x)) * Delta * Delta * Delta,
           Len(x) * Len(x) * 2 * Period>>

\* A statistic over the whole of count_max.
sigma_all(s) == Scaled(s.counter.count_max)

\* TRNG.sigma: the statistic over self.counter.count_max[1:].
sigma(s) ==
    Scaled(SubSeq(s.counter.count_max, 2, Len(s.counter.count_max)))

InitSigma ==
    /\ sim = RunUntil(TRNG_init(FALSE), Until)
    /\ twin = <<>>
    /\ seedseq = <<>>

\* Environment.step, any event; the reads made so far are left behind.
Advance ==
    /\ sim.status = "running"
    /\ \E e \in Earliest(sim.queue) :
           \E d \in Jitter(sim) : sim' = Step(sim, e, d)
    /\ twin' = <<>>
    /\ UNCHANGED seedseq

\* The owner reads trng.sigma.
ReadSigma ==
    /\ Len(twin) < MaxReads
    /\ twin' = Append(twin, sigma(sim))
    /\ UNCHANGED <<sim, seedseq>>

NextSigma == Advance \/ ReadSigma

SpecSigma == InitSigma /\ [][NextSigma]_vars

(***************************************************************************)
(* Properties of TRNG.sigma, under SpecSigma.                              *)
(***************************************************************************)
\* The state s with everything sigma is said not to depend on changed: the
\* first entry of count_max, the live count, the sample index, the samples
\* and the clock.
Elsewhere(s) ==
    [s EXCEPT !.counter.count_max =
                  IF @ = <<>> THEN @ ELSE <<@[1] + 1>> \o Tail(@),
              !.counter.count = @ + 1,
              !.counter.n = @ + 1,
              !.rand_out.data = <<>>,
              !.now = @ + 1]

Capacity == 1
\* The instant the run on bounded pipes is stopped at.
BoundedUntil == 20
\* The number of values the client of a Store gets.
MaxGets == 2

\* The Stores the clients read, and the pipe each belongs to.
Slow == {"counter_clk", "rand_clk"}

\* TRNG.__init__ with bounded pipes, the first three processes started.
Bounded_init ==
    LET s0 == [NewTRNG(FALSE) EXCEPT
                   !.capacity = [b \in DOMAIN @ |-> Capacity]]
        s1 == get_output_conn(s0, "ro2_bc_pipe", "ff_clk")
        s2 == get_output_conn(s1, "ro2_bc_pipe", "counter_clk")
        s3 == get_output_conn(s2, "beat_bc_pipe", "rand_clk")
    IN Process(Process(Process(s3, "ro1"), "ro2"), "beat_ff")

InitBounded ==
    /\ sim = RunUntil(Bounded_init, BoundedUntil)
    /\ twin = <<>>
    /\ seedseq = <<>>

\* Environment.step on an event of ro1, ro2 or the latch, on a put event
\* or on the condition of a broadcast; the oscillators run without jitter.
Proceed ==
    /\ sim.status = "running"
    /\ \E e \in Earliest(sim.queue) :
           /\ e.kind \in {"init", "timeout", "put", "all_of"}
                 \/ (e.kind = "get" /\ e.proc = "beat_ff")
           /\ sim' = Step(sim, e, 0)
    /\ UNCHANGED <<twin, seedseq>>

\* Environment.step on the stop event: the run returns.
Finish ==
    /\ sim.status = "running"
    /\ \E e \in Earliest(sim.queue) :
           /\ e.kind = "until"
           /\ sim' = Step(sim, e, 0)
    /\ UNCHANGED <<twin, seedseq>>

\* The client of a Store calls get(), its earlier get having returned.
ClientGet ==
    /\ sim.status = "running"
    /\ \E m \in Slow :
           /\ Len(sim.hist.gotlog[m]) < MaxGets
           /\ sim.stores[m].get_queue = <<>>
           /\ ~\E e \in sim.queue : e.kind = "get" /\ e.store = m
           /\ sim' = StoreGet(sim, m, m)
    /\ UNCHANGED <<twin, seedseq>>

\* Environment.step on the get event of a client: its get returns.
ClientGot ==
    /\ sim.status = "running"
    /\ \E e \in Earliest(sim.queue) :
           /\ e.kind = "get" /\ e.proc \in Slow
           /\ sim' = GotValue(Note(Pop(sim, e), e), e)
    /\ UNCHANGED <<twin, seedseq>>

NextBounded == Proceed \/ Finish \/ ClientGet \/ ClientGot

SpecBounded == InitBounded /\ [][NextBounded]_vars

(***************************************************************************)
(* Properties of the producers on bounded pipes, under SpecBounded.        *)
(***************************************************************************)
\* The producer process of each pipe.
Owner(bp) == IF bp = "ro2_bc_pipe" THEN "ro2" ELSE "beat_ff"

\* Process p is to be resumed by an event of its own: it is not suspended
\* in a put.
Runnable(s, p) ==
    \/ \E e \in s.queue : e.proc = p /\ e.kind \in {"init", "timeout", "get"}
    \/ \E m \in DOMAIN s.stores : p \in {s.stores[m].get_queue[k] :
                                          k \in 1..Len(s.stores[m].get_queue)}

\* C12 as stated: while a put of a producer waits for room in a full Store
\* the producer goes on to no further wait, flip or put, and no Store holds
\* more values than its capacity.
C12_Original ==
    /\ \A m \in DOMAIN sim.stores :
           \/ sim.stores[m].capacity = Infinity
           \/ Len(sim.stores[m].items) <= sim.stores[m].capacity
    /\ \A bp \in DOMAIN sim.pipes :
           \A k \in 1..Len(sim.pipes[bp]) :
               LET S == sim.stores[sim.pipes[bp][k]] IN
               S.put_queue # <<>> =>
                   /\ Len(S.put_queue) = 1
                   /\ ~Runnable(sim, Owner(bp))

\* C12, the part that holds: no Store of a bounded pipe ever holds more
\* values than its capacity; a put that finds its Store full is kept, in
\* put order, in the put_queue of the Store until a get has made room, and
\* nothing put is lost.
C12_Capacity ==
    \A bp \in DOMAIN sim.pipes :
        \A k \in 1..Len(sim.pipes[bp]) :
            LET m == sim.pipes[bp][k]
                S == sim.stores[m]
            IN /\ Len(S.items) <= Capacity
               /\ S.put_queue # <<>> =>
                      \/ Len(S.items) = Capacity
                      \/ \E e \in sim.queue : e.kind = "get" /\ e.store = m
               /\ Vals(sim.hist.putlog[m])
                      \o [j \in 1..Len(S.put_queue) |-> S.put_queue[j].item]
                      = sim.hist.sent[bp]

(***************************************************************************)
(* Further properties of the run of the TRNG, under Spec.                  *)
(***************************************************************************)
\* The instant the loop of oscillator r is entered at: an oscillator with
\* an out_pipe first waits period / 4.
Phase(r) == IF out_pipe(r) # "none" THEN period(r) \div 4 ELSE 0

\* What the waits and flips of oscillator r are, its flips being counted
\* from the instant first.
Transitions(r, first) ==
    LET w == sim.hist.waits[r]
        f == sim.hist.flips[r]
    IN /\ \A k \in 1..Len(w) : w[k] - half_period(r) \in Noise
       /\ Len(w) = IF sim.pc[r] \in {"loop", "dead"} THEN Len(f) + 1 ELSE 0
       /\ \A k \in 1..Len(f) : f[k] = first + Sum(SubSeq(w, 1, k))
       /\ sim.ro[r].state = (Len(f) % 2 = 0)
       /\ out_pipe(r) # "none" =>
              /\ Len(sim.hist.sent[out_pipe(r)]) = Len(f)
              /\ \A k \in 1..Len(f) :
                     sim.hist.sent[out_pipe(r)][k] = (k % 2 = 0)

\* The state of an oscillator changes only when its own timeout is
\* processed.
OwnFlips ==
    [][\A r \in {"ro1", "ro2"} :
           sim'.ro[r].state # sim.ro[r].state =>
               /\ sim'.hist.last.proc = r
               /\ sim'.hist.last.kind = "timeout"
               /\ sim'.hist.flips[r] = Append(sim.hist.flips[r], sim'.now)]_vars

\* C13: every wait of the loop of an oscillator lasts half_period + noise
\* and is followed by one flip and, with an out_pipe, one broadcast of the
\* new state; an oscillator with an out_pipe first waits period / 4 once,
\* without a flip.  So the n-th flip is at the sum of the first n waits for
\* ro1 and period / 4 later for ro2: without jitter at n * half_period and
\* at period / 4 + n * half_period.  No other process changes the state.
C13_Transition ==
    /\ [](\A r \in {"ro1", "ro2"} : Transitions(r, Phase(r)))
    /\ OwnFlips

\* C13 as stated: the n-th flip of either oscillator is at the sum of its
\* first n waits of half_period + noise, without jitter at n * half_period.
C13_Original == \A r \in {"ro1", "ro2"} : Transitions(r, 0)

\* C13 witness: both oscillators have flipped three times or more, the
\* first three waits of each without jitter, the third flip of ro1 at
\* 3 * half_period and that of ro2 at period / 4 + 3 * half_period.
C13_Witness ==
    /\ \A r \in {"ro1", "ro2"} :
           /\ Len(sim.hist.flips[r]) >= 3
           /\ \A k \in 1..3 : sim.hist.waits[r][k] = half_period(r)
    /\ sim.hist.flips["ro1"][3] = 3 * half_period("ro1")
    /\ sim.hist.flips["ro2"][3] = period("ro2") \div 4 + 3 * half_period("ro2")
    /\ Len(sim.hist.sent["ro2_bc_pipe"]) >= 3

\* The step of the counter that receives a clock value.
CounterGot ==
    /\ sim'.hist.steps = sim.hist.steps + 1
    /\ sim'.hist.last.proc = "counter"
    /\ sim'.hist.last.kind = "get"

\* The event a step processes was scheduled before every other event due
\* at the time of the step.
InSchedulingOrder ==
    sim'.hist.steps = sim.hist.steps + 1 =>
        \A f \in sim.queue :
            /\ f.time >= sim'.now
            /\ f.time = sim'.now => Last(sim'.hist.eids) <= f.eid

\* When the counter is resumed with its k-th clock value the latch has been
\* resumed with its k-th, at the same time.
LatchFirst ==
    LET k == Len(sim'.hist.gotlog["counter_clk"]) IN
    /\ Len(sim.hist.gotlog["ff_clk"]) >= k
    /\ sim.hist.gotlog["ff_clk"][k].t = sim'.now

\* C14: the events due at one time are processed in the order they were
\* scheduled in; and a broadcast of ro2 made while the latch and the
\* counter are both suspended in get resumes the latch before the counter,
\* at the time of the broadcast.
C14_TieOrder ==
    [][/\ InSchedulingOrder
       /\ (CounterGot /\ Last(sim'.hist.putlog["counter_clk"]).w) =>
              LatchFirst]_vars

\* C14 as stated: every broadcast of ro2 resumes the latch before the
\* counter.
C14_Original == [][CounterGot => LatchFirst]_vars

\* C14 witness: the counter has just been resumed with its second true
\* clock value, put while it was suspended in get, after the latch.
C14_Witness ==
    /\ sim.hist.last.proc = "counter"
    /\ sim.hist.last.kind = "get"
    /\ sim.hist.last.val = <<TRUE>>
    /\ Len(sim.hist.gotlog["counter_clk"]) = 4
    /\ Len(sim.hist.gotlog["ff_clk"]) = 4
    /\ sim.hist.putlog["counter_clk"][4].w
    /\ sim.hist.gotlog["ff_clk"][4].t = sim.now

\* The step of the counter that ends its settling wait.
CounterSettled ==
    /\ sim'.hist.steps = sim.hist.steps + 1
    /\ sim'.hist.last.proc = "counter"
    /\ sim'.hist.last.kind = "timeout"

\* The number of true values among vals.
Trues(vals) == Cardinality({k \in 1..Len(vals) : vals[k]})

\* What the counter does for one true clock value, its settling wait over.
CounterRule ==
    LET c == sim.counter
        d == sim'.counter
    IN /\ Vals(sim'.hist.putlog["q_pipe"]) =
              Append(Vals(sim.hist.putlog["q_pipe"]), c.count)
       /\ sim'.stores["q_pipe"].items =
              Append(sim.stores["q_pipe"].items, c.count)
       /\ IF sim.beat_ff.state /\ ~c.old_state
          THEN /\ d.count_max = Append(c.count_max, c.count)
               /\ d.count = 0
               /\ d.n = c.n + 1
          ELSE /\ d.count_max = c.count_max
               /\ d.count = c.count + 1
               /\ d.n = c.n
       /\ d.old_state = sim.beat_ff.state

\* C15: for each true clock value, once its settling wait is over, the
\* counter publishes its count and then resets (count appended to
\* count_max, count 0) exactly when the latch is true and was false at the
\* update before (false at first), or else adds 1 to count; old_state
\* takes the state of the latch in both branches.  No other step, that of
\* a false clock value included, changes a field of the counter; each true
\* value is followed by one update, and count is never negative.
C15_CounterRule ==
    /\ [][/\ CounterSettled => CounterRule
          /\ ~CounterSettled =>
                 /\ sim'.counter = sim.counter
                 /\ sim'.hist.putlog["q_pipe"] = sim.hist.putlog["q_pipe"]]_vars
    /\ [](/\ sim.counter.count >= 0
          /\ Len(sim.hist.putlog["q_pipe"]) =
                 Trues(Vals(sim.hist.gotlog["counter_clk"]))
                     - (IF sim.pc["counter"] = "settle" THEN 1 ELSE 0))

\* C15 witness: the counter has just counted a true clock value with the
\* latch true as it was at the reset one update before, and has taken a
\* false clock value in between.
C15_Witness ==
    /\ sim.hist.last.proc = "counter"
    /\ sim.hist.last.kind = "timeout"
    /\ sim.counter.count_max # <<>>
    /\ sim.counter.count = 1
    /\ sim.counter.old_state /\ sim.beat_ff.state
    /\ Len(sim.hist.gotlog["counter_clk"]) >
           Len(sim.hist.putlog["q_pipe"])

\* C16: the sample index n is always the length of count_max plus one, and
\* the running mean, a fraction kept exact, is the arithmetic mean of all
\* the entries of count_max: avg * len(count_max) = sum(count_max).
C16_RunningMean ==
    /\ sim.counter.n = Len(sim.counter.count_max) + 1
    /\ sim.counter.avg[2] > 0
    /\ sim.counter.avg[1] * Len(sim.counter.count_max) =
           Sum(sim.counter.count_max) * sim.counter.avg[2]

\* C16 witness: two resets with different counts, the mean not a whole
\* number.
C16_Witness ==
    /\ Len(sim.counter.count_max) = 2
    /\ sim.counter.n = 3
    /\ Sum(sim.counter.count_max) % 2 # 0
    /\ sim.counter.avg[1] * 2 = Sum(sim.counter.count_max) * sim.counter.avg[2]

(***************************************************************************)
(* The run of the TRNG with jitter as large as the half periods: a wait of *)
(* ro2 may be zero or as short as the settling wait of the counter, so     *)
(* that ro2 flips more than once while the counter settles.                *)
(***************************************************************************)
\* The instant the run with large jitter is stopped at.
FastUntil == 16
\* The number of jitter draws that are free in it; later draws return 0.
MaxFast == 10

\* The values normalvariate may return for each oscillator, in ticks.
FastNoise(r) == IF r = "ro2" THEN {-4, -3, 0} ELSE {-3, 0}

InitFast ==
    /\ sim = RunUntil(TRNG_init(FALSE), FastUntil)
    /\ twin = <<>>
    /\ seedseq = <<>>

\* Environment.step on a timeout or Initialize event of an oscillator.
FastFlip ==
    /\ sim.status = "running"
    /\ \E e \in Earliest(sim.queue) :
           /\ e.proc \in {"ro1", "ro2"}
           /\ \E d \in (IF sim.ndraw < MaxFast THEN FastNoise(e.proc)
                        ELSE {0}) :
                  sim' = Step(sim, e, d)
    /\ UNCHANGED <<twin, seedseq>>

\* Environment.step on any other event.
FastStep ==
    /\ sim.status = "running"
    /\ \E e \in Earliest(sim.queue) :
           /\ e.proc \notin {"ro1", "ro2"}
           /\ sim' = Step(sim, e, 0)
    /\ UNCHANGED <<twin, seedseq>>

NextFast == FastFlip \/ FastStep

SpecFast == InitFast /\ [][NextFast]_vars

(***************************************************************************)
(* Properties of the run with large jitter, under SpecFast.                *)
(***************************************************************************)
\* The latch and the sampler have acted on the i-th true clock value, at
\* an earlier time than the i-th update of the counter.
ActedBefore(i) ==
    /\ Len(sim.hist.sent["beat_bc_pipe"]) >= i
    /\ Len(sim.hist.gotlog["rand_clk"]) >= i
    /\ sim.hist.putlog["rand_clk"][i].t < sim.hist.putlog["q_pipe"][i].t
    /\ sim.hist.gotlog["rand_clk"][i].t < sim.hist.putlog["q_pipe"][i].t
    /\ sim.hist.gates[i].latched >= i

\* C17: the latch has taken the i-th true clock value, and the sampler the
\* state the latch broadcast for it, at a time strictly before the counter
\* publishes and resets or counts for that value; and the reset gate the
\* counter then reads is the state the latch took on that value, provided
\* the latch has taken no later true value since.
C17_EdgeOrder ==
    /\ Len(sim.hist.gates) = Len(sim.hist.putlog["q_pipe"])
    /\ \A i \in 1..Len(sim.hist.gates) :
           /\ ActedBefore(i)
           /\ sim.hist.gates[i].latched = i =>
                  sim.hist.gates[i].rst = sim.hist.sent["beat_bc_pipe"][i]

\* C17 as stated: the reset gate the counter reads for a true clock value
\* is always the state the latch took on that same value.
C17_Original ==
    \A i \in 1..Len(sim.hist.gates) :
        /\ ActedBefore(i)
        /\ sim.hist.gates[i].rst = sim.hist.sent["beat_bc_pipe"][i]

\* C17 witness: the counter has just reset on its second true clock value,
\* one tick after the latch went from false to true on that value and the
\* sampler took it.
C17_Witness ==
    /\ sim.hist.last.proc = "counter"
    /\ sim.hist.last.kind = "timeout"
    /\ Len(sim.hist.gates) = 2
    /\ sim.hist.gates[2] = [rst |-> TRUE, latched |-> 2]
    /\ sim.hist.sent["beat_bc_pipe"] = <<FALSE, TRUE>>
    /\ Len(sim.counter.count_max) = 1
    /\ Len(sim.rand_out.data) = 1
    /\ sim.hist.gotlog["rand_clk"][2].t + SettleDelay = sim.now

\* The sampler has recorded as many samples as the counter has made
\* resets, or one more, and the k-th sample is the k-th entry of count_max
\* modulo 2.
Agreement ==
    /\ Len(sim.rand_out.data) - Len(sim.counter.count_max) \in {0, 1}
    /\ \A k \in 1..Len(sim.counter.count_max) :
           sim.rand_out.data[k] = sim.counter.count_max[k] % 2

\* Every wait of the loop of ro2 so far is at least the settling wait of
\* the counter.
SlowClock ==
    \A k \in 1..Len(sim.hist.waits["ro2"]) :
        sim.hist.waits["ro2"][k] >= SettleDelay

\* C18: in a run that is not verbose and in which no wait of ro2 is
\* shorter than the settling wait of the counter, the sampler has recorded
\* as many samples as the counter has made resets, or one more, and the
\* k-th sample is the k-th entry of count_max modulo 2.
C18_Agreement == (~sim.verbose /\ SlowClock) => Agreement

\* C18 as stated: the samples and the resets agree in every run that is
\* not verbose.
C18_Original == ~sim.verbose => Agreement

\* C18 witness: two samples and two resets, the second on a count of 1,
\* in a run in which ro2 waited as long as the counter settles and longer.
C18_Witness ==
    /\ SlowClock
    /\ sim.counter.count_max = <<0, 1>>
    /\ sim.rand_out.data = <<0, 1>>
    /\ \E k \in 1..Len(sim.hist.waits["ro2"]) :
           sim.hist.waits["ro2"][k] = SettleDelay

(***************************************************************************)
(* Further properties of the run of the TRNG, under Spec.                  *)
(***************************************************************************)
\* The values vals alternate, the first one false.
Alternating(vals) == \A k \in 1..Len(vals) : vals[k] = (k % 2 = 0)

\* C19: the values ro2 broadcasts alternate, the first one false; so do
\* the values the latch and the counter receive, no two in a row true; and
\* among the first m broadcasts m \div 2 are true.
C19_Alternation ==
    /\ Alternating(sim.hist.sent["ro2_bc_pipe"])
    /\ \A c \in {"ff_clk", "counter_clk"} :
           /\ Alternating(Vals(sim.hist.gotlog[c]))
           /\ \A k \in 1..(Len(sim.hist.gotlog[c]) - 1) :
                  ~(sim.hist.gotlog[c][k].v /\ sim.hist.gotlog[c][k + 1].v)
    /\ \A n \in 0..Len(sim.hist.sent["ro2_bc_pipe"]) :
           Trues(SubSeq(sim.hist.sent["ro2_bc_pipe"], 1, n)) = n \div 2

\* C19 witness: ro2 has made five broadcasts, and the latch and the counter
\* have received the five.
C19_Witness ==
    /\ Len(sim.hist.sent["ro2_bc_pipe"]) = 5
    /\ Len(sim.hist.gotlog["ff_clk"]) = 5
    /\ Len(sim.hist.gotlog["counter_clk"]) = 5
    /\ Trues(sim.hist.sent["ro2_bc_pipe"]) = 2

(***************************************************************************)
(* The run of the TRNG without a time limit: env.run().  What no later     *)
(* step reads is left out of the state, so that the run is a walk in a     *)
(* finite graph: the clock is kept relative to now, the event ids and the  *)
(* condition ids are renumbered in their order, count is kept modulo 2,    *)
(* and the recorded sequences and the Store nobody reads are emptied.      *)
(***************************************************************************)
\* The values normalvariate may return for each oscillator, every wait
\* being positive: one tick, the settling wait of the counter, or more.
LiveNoise(r) == IF r = "ro2" THEN {-3, 0, 1} ELSE {-2, 0}

\* The number of events of q scheduled before e.
Rank(q, e) == Cardinality({f \in q : f.eid < e.eid})

\* The number of pending conditions created before condition c.
CondRank(s, c) == Cardinality({x \in s.conds : x.id < c})

\* The state s with now as the origin of the clock and the ids renumbered.
Rebased(s) ==
    [s EXCEPT !.now = 0,
              !.eid = Cardinality(s.queue),
              !.queue = {[e EXCEPT !.time = @ - s.now,
                                   !.eid = Rank(s.queue, e),
                                   !.cond = IF e.kind = "put" /\ @ # 0
                                            THEN CondRank(s, @) + 1 ELSE 0] :
                         e \in s.queue},
              !.ncond = Cardinality(s.conds),
              !.conds = {[x EXCEPT !.id = CondRank(s, @) + 1] : x \in s.conds},
              !.stores = [x \in DOMAIN s.stores |->
                             [s.stores[x] EXCEPT
                                  !.put_queue =
                                      [k \in 1..Len(@) |->
                                          [@[k] EXCEPT !.cond =
                                               IF @ # 0
                                               THEN CondRank(s, @) + 1
                                               ELSE 0]]]]]

\* The state s without what no later step reads.
Forgetful(s) ==
    [s EXCEPT !.ndraw = 0,
              !.counter.count = @ % 2,
              !.counter.count_max = <<>>,
              !.counter.avg = <<0, 1>>,
              !.counter.n = 1,
              !.rand_out.data = <<>>,
              !.stores["q_pipe"].items = <<>>,
              !.hist = [TRNG_init(FALSE).hist EXCEPT !.last = s.hist.last]]

\* The states one Environment.step may lead to from s: the earliest event
\* is processed, an oscillator drawing its next wait.  The marks of hist
\* are those of that step alone.
Successors(s) ==
    IF s.status # "running" THEN {}
    ELSE UNION {{Rebased(Step(Forgetful(s), e, d)) :
                    d \in (IF e.proc \in {"ro1", "ro2"}
                           THEN LiveNoise(e.proc) ELSE {0})} :
                e \in Earliest(s.queue)}

\* twin holds the states the next step of the run may lead to.
InitLive ==
    /\ sim = Rebased(TRNG_init(FALSE))
    /\ twin = Successors(sim)
    /\ seedseq = <<>>

\* Environment.step: the run moves to one of the states of twin.
LiveStep == sim' \in twin

NextLive ==
    /\ LiveStep
    /\ twin' = Successors(sim')
    /\ UNCHANGED seedseq

\* env.run() steps as long as there is an event.
SpecLive == InitLive /\ [][NextLive]_vars /\ WF_sim(LiveStep)

(***************************************************************************)
(* Properties of the run without a time limit, under SpecLive.             *)
(***************************************************************************)
\* The Stores of the latch, the counter and the sampler.
Mailboxes == {"ff_clk", "counter_clk", "rand_clk"}

\* Store m is drained: nothing buffered and nothing on its way.
Drained(m) == sim.stores[m].items = <<>> /\ InFlight(sim, m) = <<>>

====
